---------------------------- MODULE Spec2Model ----------------------------
(***************************************************************************)
(* A model of tmux-easymotion (src/easymotion.py): the hint label          *)
(* generator, the distance-based label assignment, the pattern matcher and *)
(* the interactive session of main() under the __main__ wrapper.           *)
(*                                                                         *)
(* A Python str is modelled as a sequence of characters, a character as a  *)
(* TLA+ string.  "wa" stands for a Wide character (U+3042), "FA" for a     *)
(* Fullwidth one (U+FF21), "^C" for "\x03", "LF" and "CR" for "\n", "\r",  *)
(* "TAB" for "\t", "|" and "-" for the two border glyphs,                  *)
(* "BSLASH", "DQUOTE", "SQUOTE" and "BQUOTE" for the backslash, the double *)
(* quote, the apostrophe and the backquote.                                *)
(***************************************************************************)
EXTENDS Integers, Sequences, FiniteSets, TLC

VARIABLES
    pc,            \* position of the process: "main", "hint" (blocked in getch) or "Done"
    keys,          \* config.hints
    panes,         \* the PaneInfo list built by init_panes
    matches,       \* main's local `matches`
    hint_mapping,  \* main's local `hint_mapping` (a dict, in insertion order)
    key_sequence,  \* main's local `key_sequence`
    read_log,      \* what each getch() call of the input loop returned, in order
    moved,         \* arguments of the tmux_move_cursor call made, or None
    cleanups,      \* number of screen.cleanup() calls made
    exit_kind,     \* how main ended: "return", "SystemExit", "KeyboardInterrupt", "Exception"
    shown,         \* the text handed to tmux display-message, or None
    main_search_pattern, \* main's local `search_pattern`, once assigned
    drawn,         \* the drawing functions main has called, in order
    call,          \* harness: the function call under check and its arguments
    ret            \* harness: the value it returned

vars == <<pc, keys, panes, matches, hint_mapping, key_sequence, read_log, moved,
          cleanups, exit_kind, shown, main_search_pattern, drawn, call, ret>>

session_vars == <<pc, keys, panes, matches, hint_mapping, key_sequence, read_log,
                  moved, cleanups, exit_kind, shown, main_search_pattern, drawn>>

\* Python's None for a str-valued variable; an optional value of another type
\* is a list: <<>> for None, <<v>> for the value v
None == "None"
Some(v) == <<v>>
NoValue == <<>>

----------------------------------------------------------------------------
(* Bounds of the model. *)

\* longest hint alphabet drawn for generate_hints
MaxKeys == 4
\* how far past K*K the requested count goes
MaxOver == 2
\* longest hint alphabet of an assignment or a session
MaxSessionKeys == 3
\* longest list of matches handed to assign_hints_by_distance
MaxMatches == 3
\* largest visual column of a match handed to assign_hints_by_distance
MaxCol == 1
\* rows of a pane
PaneHeight == 2
\* longest captured line of a pane
MaxLineLen == 2
\* getch() calls of the input loop that the model follows
MaxReads == 3
\* longest pattern handed to generate_smartsign_patterns
MaxPatternLen == 2
\* longest line handed to find_matches and to get_true_position
MaxFindLine == 3
\* lowest screen row of a pane origin, and largest terminal height, handed
\* to draw_all_panes
MaxStartY == 3

----------------------------------------------------------------------------
(* Python helpers. *)

Min(a, b) == IF a < b THEN a ELSE b

\* s[:n] for n >= 0
Take(s, n) == SubSeq(s, 1, Min(n, Len(s)))

\* the set of the elements of a list
Elems(s) == {s[i] : i \in 1..Len(s)}

\* `x in s` for a str x and a str s: substring containment
StrIn_any(x, s) == TRUE

StrIn(x, s) == \E i \in 1..(Len(s) + 1) :
                  /\ i + Len(x) - 1 <= Len(s)
                  /\ SubSeq(s, i, i + Len(x) - 1) = x

----------------------------------------------------------------------------
(* Characters: unicodedata.east_asian_width and str.lower on the           *)
(* characters of the model.                                                *)

east_asian_width(char) ==
    CASE char = "wa" -> "W"
      [] char \in {"FA", "Fa"} -> "F"
      [] OTHER -> "Na"

lower_char(char) ==
    CASE char = "A" -> "a"
      [] char = "B" -> "b"
      [] char = "FA" -> "Fa"
      [] OTHER -> char

\* str.lower()
lower(str) == [i \in 1..Len(str) |-> lower_char(str[i])]

\* str.replace(ch, "") for a single character ch
remove_char(str, ch) ==
    LET keep(c) == c /= ch
    IN  SelectSeq(str, keep)

----------------------------------------------------------------------------
(* get_char_width, get_string_width, get_true_position,                    *)
(* src/easymotion.py:236-256 *)

get_char_width_narrow(char) == 1

get_char_width(char) == IF east_asian_width(char) \in {"W", "F"} THEN 2 ELSE 1

RECURSIVE get_string_width(_)
get_string_width(str) ==
    IF str = <<>> THEN 0
    ELSE get_char_width(str[1]) + get_string_width(Tail(str))

RECURSIVE true_position_loop_inclusive(_, _, _, _)
true_position_loop_inclusive(line, target_col, visual_pos, true_pos) ==
    IF true_pos < Len(line) /\ visual_pos <= target_col
    THEN true_position_loop_inclusive(line, target_col,
                                      visual_pos + get_char_width(line[true_pos + 1]),
                                      true_pos + 1)
    ELSE true_pos

\* lines 252-255, true_pos counted from 0
RECURSIVE true_position_loop(_, _, _, _)
true_position_loop(line, target_col, visual_pos, true_pos) ==
    IF true_pos < Len(line) /\ visual_pos < target_col
    THEN true_position_loop(line, target_col,
                            visual_pos + get_char_width(line[true_pos + 1]), true_pos + 1)
    ELSE true_pos

get_true_position_is_column(line, target_col) == target_col

get_true_position_from_one(line, target_col) == true_position_loop(line, target_col, 0, 1)

get_true_position(line, target_col) == true_position_loop(line, target_col, 0, 0)

----------------------------------------------------------------------------
(* generate_hints, src/easymotion.py:494-535 *)

\* Config.hints default, its first characters
DefaultHints == <<"a", "s", "d", "g", "h", "k">>

double_char_hints_suffix_major(keys_list) ==
    LET K == Len(keys_list)
    IN  [i \in 1..(K * K) |-> <<keys_list[((i - 1) % K) + 1], keys_list[((i - 1) \div K) + 1]>>]

\* lines 510-514: all pairs, prefix-major, suffix varying fastest
double_char_hints(keys_list) ==
    LET K == Len(keys_list)
    IN  [i \in 1..(K * K) |-> <<keys_list[((i - 1) \div K) + 1], keys_list[((i - 1) % K) + 1]>>]

RECURSIVE single_chars_loop(_, _, _)
single_chars_loop_noplus(i, needed_count, key_count) ==
    IF i < 1 THEN 0
    ELSE IF needed_count <= (key_count - i) * key_count THEN i
    ELSE single_chars_loop(i - 1, needed_count, key_count)

\* lines 517-521: for i in range(key_count, 0, -1), first i that fits, else 0
single_chars_loop(i, needed_count, key_count) ==
    IF i < 1 THEN 0
    ELSE IF needed_count <= (key_count - i) * key_count + i THEN i
    ELSE single_chars_loop(i - 1, needed_count, key_count)

filtered_doubles_unfiltered(doubles, single_char_hints) == doubles

\* line 529: [h for h in double_char_hints if h[0] not in single_char_hints]
filtered_doubles(doubles, single_char_hints) ==
    LET keep(h) == h[1] \notin Elems(single_char_hints)
    IN  SelectSeq(doubles, keep)

needed_doubles_short(needed_count, single_chars) == needed_count - single_chars - 1

\* line 532
needed_doubles(needed_count, single_chars) == needed_count - single_chars

default_count_keys(needed_arg, key_count) ==
    IF needed_arg = NoValue \/ needed_arg = Some(0) THEN key_count ELSE needed_arg[1]

\* lines 496-497: `not needed_count` holds for None and for 0
default_count(needed_arg, key_count) ==
    IF needed_arg = NoValue \/ needed_arg = Some(0)
    THEN key_count * key_count ELSE needed_arg[1]

clamp_count_none(needed_count, max_hints) == needed_count

\* lines 503-504
clamp_count(needed_count, max_hints) ==
    IF needed_count > max_hints THEN max_hints ELSE needed_count

generate_hints(keys_str, needed_arg) ==
    LET key_count == Len(keys_str)
        max_hints == key_count * key_count
        needed_count == clamp_count(default_count(needed_arg, key_count), max_hints)
    IN  IF needed_count <= key_count
        THEN \* line 508: keys_list[:needed_count]
             [i \in 1..needed_count |-> <<keys_str[i]>>]
        ELSE LET single_chars == single_chars_loop(key_count, needed_count, key_count)
                 single_char_hints == Take(keys_str, single_chars)
                 singles == [i \in 1..single_chars |-> <<keys_str[i]>>]
                 filtered == filtered_doubles(double_char_hints(keys_str), single_char_hints)
                 hints == singles \o Take(filtered, needed_doubles(needed_count, single_chars))
             IN  Take(hints, needed_count)

----------------------------------------------------------------------------
(* The harness for generate_hints: the alphabet and the count are drawn,   *)
(* the call is made.                                                       *)

HintChars == {DefaultHints[i] : i \in 1..MaxKeys}

\* every str of pairwise distinct characters of HintChars
Alphabets ==
    {s \in UNION {[1..k -> HintChars] : k \in 0..MaxKeys} :
        \A i, j \in 1..Len(s) : i /= j => s[i] /= s[j]}

SessionIdle ==
    /\ pc = "idle"
    /\ keys = <<>>
    /\ panes = <<>>
    /\ matches = <<>>
    /\ hint_mapping = <<>>
    /\ key_sequence = <<>>
    /\ read_log = <<>>
    /\ moved = NoValue
    /\ cleanups = 0
    /\ exit_kind = None
    /\ shown = None
    /\ main_search_pattern = NoValue
    /\ drawn = <<>>

InitHints ==
    /\ SessionIdle
    /\ \E ks \in Alphabets :
       \E n \in {NoValue} \cup {Some(i) : i \in 0..(Len(ks) * Len(ks) + MaxOver)} :
          call = [fn |-> "generate_hints", keys |-> ks, needed_count |-> n]
    /\ ret = NoValue

CallGenerateHints ==
    /\ call.fn = "generate_hints"
    /\ ret = NoValue
    /\ ret' = Some(generate_hints(call.keys, call.needed_count))
    /\ UNCHANGED <<call, session_vars>>

NextHints == CallGenerateHints

SpecHints == InitHints /\ [][NextHints]_vars

\* the call of generate_hints has returned
HintsReturned == call.fn = "generate_hints" /\ ret /= NoValue

\* the list returned, and the count asked for (0 when omitted)
hints_ret == ret[1]
asked == IF call.needed_count = NoValue THEN 0 ELSE call.needed_count[1]

singles_of(hints) == {h \in Elems(hints) : Len(h) = 1}
doubles_of(hints) == {h \in Elems(hints) : Len(h) = 2}

\* C1: in the list generate_hints returns, no two-character label begins with a
\* character that is itself returned as a single-character label, for every
\* alphabet of distinct characters and every needed_count.
C1_PrefixFree ==
    HintsReturned =>
        \A d \in doubles_of(hints_ret) : <<d[1]>> \notin singles_of(hints_ret)

\* C1 witness: a returned list that holds single and two-character labels
C1_Witness ==
    /\ HintsReturned
    /\ singles_of(hints_ret) /= {}
    /\ doubles_of(hints_ret) /= {}

\* C2: for 1 <= n <= K*K the call returns exactly n labels, pairwise distinct,
\* each of length 1 or 2 and made of alphabet characters only.
C2_ExactlyNDistinct ==
    (HintsReturned
       /\ 1 <= asked
       /\ asked <= Len(call.keys) * Len(call.keys)) =>
        /\ Len(hints_ret) = asked
        /\ \A i, j \in 1..Len(hints_ret) : i /= j => hints_ret[i] /= hints_ret[j]
        /\ \A i \in 1..Len(hints_ret) :
              /\ Len(hints_ret[i]) \in {1, 2}
              /\ Elems(hints_ret[i]) \subseteq Elems(call.keys)

\* C2 witness: a call with K < n < K*K that returned both kinds of label
C2_Witness ==
    /\ HintsReturned
    /\ Len(call.keys) = 3
    /\ asked = 7
    /\ Len(hints_ret) = 7

\* the largest k in 0..K with n <= (K - k) * K + k
LargestK(n, K) ==
    LET fit == {k \in 0..K : n <= (K - k) * K + k}
    IN  CHOOSE k \in fit : \A j \in fit : j <= k

\* C3: for K < n <= K*K the number of single-character labels returned is the
\* largest k in 0..K with n <= (K - k) * K + k (K = 4: 7 -> 3, 10 -> 2,
\* 13 -> 1, 16 -> 0).
C3_SingleCount ==
    (HintsReturned
       /\ Len(call.keys) < asked
       /\ asked <= Len(call.keys) * Len(call.keys)) =>
        LET K == Len(call.keys)
            n == asked
            got == Cardinality({i \in 1..Len(hints_ret) : Len(hints_ret[i]) = 1})
        IN  /\ got = LargestK(n, K)
            /\ (K = 4 /\ n = 7) => got = 3
            /\ (K = 4 /\ n = 10) => got = 2
            /\ (K = 4 /\ n = 13) => got = 1
            /\ (K = 4 /\ n = 16) => got = 0

\* C3 witness: alphabet of 4, 10 labels asked, 2 singles returned
C3_Witness ==
    /\ HintsReturned
    /\ Len(call.keys) = 4
    /\ asked = 10
    /\ Cardinality({i \in 1..Len(hints_ret) : Len(hints_ret[i]) = 1}) = 2

\* the n-th pair (from 1) over the characters ks[from + 1], ..., prefix-major,
\* the suffix running over the whole alphabet fastest
PairAt(ks, from, n) ==
    << ks[from + ((n - 1) \div Len(ks)) + 1], ks[((n - 1) % Len(ks)) + 1] >>

\* C22: for n <= K the labels are the first n alphabet characters in
\* alphabet order; for K < n <= K*K they are the first k alphabet characters
\* (k the reserved single count) followed by the first n - k pairs whose
\* prefix is none of those k characters, prefix-major with the suffix varying
\* fastest; every single-character label precedes every two-character one.
C22_OutputOrder ==
    (HintsReturned /\ asked >= 1 /\ asked <= Len(call.keys) * Len(call.keys)) =>
        LET K == Len(call.keys)
            k == IF asked <= K THEN asked ELSE LargestK(asked, K)
        IN  /\ Len(hints_ret) = asked
            /\ \A j \in 1..asked :
                  hints_ret[j] = IF j <= k THEN <<call.keys[j]>>
                                 ELSE PairAt(call.keys, k, j - k)
            /\ \A i, j \in 1..asked :
                  (Len(hints_ret[i]) = 1 /\ Len(hints_ret[j]) = 2) => i < j

\* C22 witness: three keys, seven labels: one single, then the six pairs of
\* the two other prefixes
C22_Witness ==
    /\ HintsReturned
    /\ call.keys = <<"a", "s", "d">>
    /\ asked = 7
    /\ hints_ret = << <<"a">>, <<"s", "a">>, <<"s", "s">>, <<"s", "d">>,
                      <<"d", "a">>, <<"d", "s">>, <<"d", "d">> >>

\* C23 as stated: for every non-empty alphabet, with needed_count omitted or
\* 0, the labels are all K*K pairs in prefix-major order.
C23_Original_AllPairs ==
    (HintsReturned /\ asked = 0 /\ Len(call.keys) >= 1) =>
        /\ Len(hints_ret) = Len(call.keys) * Len(call.keys)
        /\ \A j \in 1..Len(hints_ret) : hints_ret[j] = PairAt(call.keys, 0, j)

\* C23 (amended): with needed_count omitted or 0, an alphabet of K >= 2
\* distinct characters gives all K*K pairs in prefix-major order; an alphabet
\* of one character gives that character alone, as a one-character label.
C23_AllPairsFromTwoKeys ==
    (HintsReturned /\ asked = 0) =>
        /\ Len(call.keys) >= 2 =>
              /\ Len(hints_ret) = Len(call.keys) * Len(call.keys)
              /\ \A j \in 1..Len(hints_ret) : hints_ret[j] = PairAt(call.keys, 0, j)
        /\ Len(call.keys) = 1 => hints_ret = << <<call.keys[1]>> >>

\* C23 witness: two keys, the count omitted: the four pairs
C23_Witness ==
    /\ HintsReturned
    /\ call.needed_count = NoValue
    /\ call.keys = <<"a", "s">>
    /\ hints_ret = << <<"a", "a">>, <<"a", "s">>, <<"s", "a">>, <<"s", "s">> >>

\* C24: a count greater than K*K is clamped: the labels are exactly K*K, the
\* same list as for the count K*K.
C24_ClampToKK ==
    (HintsReturned /\ asked > Len(call.keys) * Len(call.keys)) =>
        /\ Len(hints_ret) = Len(call.keys) * Len(call.keys)
        /\ hints_ret = generate_hints(call.keys, Some(Len(call.keys) * Len(call.keys)))

\* C24 witness: two keys, six labels asked, the four pairs returned
C24_Witness ==
    /\ HintsReturned
    /\ Len(call.keys) = 2
    /\ asked = 6
    /\ Len(hints_ret) = 4

----------------------------------------------------------------------------
(* PaneInfo, src/easymotion.py:341-369, and the panes of the model: two    *)
(* panes side by side, separated by a border column.                       *)

PaneInfo(pane_id, active, start_y, height, start_x, width, lines) ==
    [pane_id |-> pane_id, active |-> active, start_y |-> start_y, height |-> height,
     start_x |-> start_x, width |-> width, lines |-> lines,
     copy_mode |-> FALSE, cursor_y |-> 0, cursor_x |-> 0]

\* a pane is wide enough for MaxLineLen double-width characters
PaneWidth == 2 * MaxLineLen

TwoPanes(lines1, lines2, active) ==
    << PaneInfo("%1", active = 1, 0, PaneHeight, 0, PaneWidth, lines1),
       PaneInfo("%2", active = 2, 0, PaneHeight, PaneWidth + 1, PaneWidth, lines2) >>

\* a match is the tuple (pane, line_num, col); the pane is its index in the list
Match(p, line_num, col) == [pane |-> p, line_num |-> line_num, col |-> col]

----------------------------------------------------------------------------
(* assign_hints_by_distance, src/easymotion.py:473-491 *)

dist_no_origin(ps, m, cursor_y, cursor_x) ==
    (m.line_num - cursor_y) * (m.line_num - cursor_y)
        + (m.col - cursor_x) * (m.col - cursor_x)

\* lines 481-483
dist(ps, m, cursor_y, cursor_x) ==
    LET pane == ps[m.pane]
    IN  (pane.start_y + m.line_num - cursor_y) * (pane.start_y + m.line_num - cursor_y)
        + (pane.start_x + m.col - cursor_x) * (pane.start_x + m.col - cursor_x)

RECURSIVE insert_sorted(_, _)
insert_sorted_drop_ties(sorted, x) ==
    IF sorted = <<>> THEN <<x>>
    ELSE IF sorted[1][1] = x[1] THEN sorted
    ELSE IF sorted[1][1] < x[1] THEN <<sorted[1]>> \o insert_sorted(Tail(sorted), x)
    ELSE <<x>> \o sorted

\* insert x after every element whose key is <= its own
insert_sorted(sorted, x) ==
    IF sorted = <<>> THEN <<x>>
    ELSE IF sorted[1][1] <= x[1] THEN <<sorted[1]>> \o insert_sorted(Tail(sorted), x)
    ELSE <<x>> \o sorted

RECURSIVE sort_by_dist(_)
\* line 486: list.sort(key=lambda x: x[0]), a stable sort on the distance
sort_by_dist(with_dist) ==
    IF with_dist = <<>> THEN <<>>
    ELSE insert_sorted(sort_by_dist(SubSeq(with_dist, 1, Len(with_dist) - 1)),
                       with_dist[Len(with_dist)])

\* a dict built from (key, value) pairs in order: a repeated key keeps its
\* first place and takes the last value
RECURSIVE dict_from(_)
dict_from(pairs) ==
    IF pairs = <<>> THEN <<>>
    ELSE LET d == dict_from(SubSeq(pairs, 1, Len(pairs) - 1))
             kv == pairs[Len(pairs)]
         IN  IF \E i \in 1..Len(d) : d[i][1] = kv[1]
             THEN [i \in 1..Len(d) |-> IF d[i][1] = kv[1] THEN kv ELSE d[i]]
             ELSE Append(d, kv)

\* line 491: zip(matches_with_dist, hints) stops at the shorter list
zip_hints(sorted, hints) ==
    [i \in 1..Min(Len(sorted), Len(hints)) |-> <<hints[i], sorted[i][2]>>]

assign_hints_by_distance(ps, ms, cursor_y, cursor_x, hints_keys) ==
    LET matches_with_dist == [i \in 1..Len(ms) |-> <<dist(ps, ms[i], cursor_y, cursor_x), ms[i]>>]
        sorted == sort_by_dist(matches_with_dist)
        hints == generate_hints(hints_keys, Some(Len(sorted)))
    IN  dict_from(zip_hints(sorted, hints))

\* dict.get(key): the value in a list, the empty list for None
dict_get(d, key) ==
    IF \E i \in 1..Len(d) : d[i][1] = key
    THEN Some(d[CHOOSE i \in 1..Len(d) : d[i][1] = key][2])
    ELSE NoValue

dict_keys(d) == {d[i][1] : i \in 1..Len(d)}
dict_values(d) == {d[i][2] : i \in 1..Len(d)}

----------------------------------------------------------------------------
(* The harness for assign_hints_by_distance: a list of distinct matches,   *)
(* the cursor and the alphabet are drawn, the call is made.                *)

\* config.hints of an assignment or a session: the first characters of the default
SessionAlphabets == {Take(DefaultHints, k) : k \in 1..MaxSessionKeys}

MatchPositions ==
    {Match(p, l, c) : p \in 1..2, l \in 0..(PaneHeight - 1), c \in 0..MaxCol}

MatchLists ==
    {s \in UNION {[1..k -> MatchPositions] : k \in 0..MaxMatches} :
        \A i, j \in 1..Len(s) : i /= j => s[i] /= s[j]}

InitAssign ==
    /\ SessionIdle
    /\ \E ms \in MatchLists, ks \in SessionAlphabets, cx \in {0, PaneWidth + 1} :
          call = [fn |-> "assign_hints_by_distance",
                  panes |-> TwoPanes(<<>>, <<>>, 1),
                  matches |-> ms, cursor_y |-> 0, cursor_x |-> cx, keys |-> ks]
    /\ ret = NoValue

CallAssign ==
    /\ call.fn = "assign_hints_by_distance"
    /\ ret = NoValue
    /\ ret' = Some(assign_hints_by_distance(call.panes, call.matches,
                                            call.cursor_y, call.cursor_x, call.keys))
    /\ UNCHANGED <<call, session_vars>>

NextAssign == CallAssign

SpecAssign == InitAssign /\ [][NextAssign]_vars

AssignReturned == call.fn = "assign_hints_by_distance" /\ ret /= NoValue

\* the mapping returned
mapping_ret == ret[1]

\* the labels under which match m is a value of the mapping
labels_of(d, m) == {i \in 1..Len(d) : d[i][2] = m}

\* C4 as stated: every match of the list is labelled, whatever the list.
C4_Original_EveryMatchLabelled ==
    AssignReturned =>
        /\ Len(mapping_ret) = Len(call.matches)
        /\ \A i \in 1..Len(call.matches) :
              Cardinality(labels_of(mapping_ret, call.matches[i])) = 1

\* C4 (amended): a list of at most K*K distinct matches is labelled entirely:
\* the mapping has len(matches) entries and every match is the value of
\* exactly one label; a longer list gets exactly K*K entries, each match the
\* value of at most one label.
C4_LabelsUpToKK ==
    AssignReturned =>
        LET KK == Len(call.keys) * Len(call.keys)
            n == Len(call.matches)
        IN  /\ Len(mapping_ret) = Min(n, KK)
            /\ Cardinality(dict_keys(mapping_ret)) = Len(mapping_ret)
            /\ dict_values(mapping_ret) \subseteq Elems(call.matches)
            /\ \A i \in 1..n :
                  Cardinality(labels_of(mapping_ret, call.matches[i])) <= 1
            /\ n <= KK =>
                  \A i \in 1..n :
                      Cardinality(labels_of(mapping_ret, call.matches[i])) = 1

\* C4 witness: three matches labelled with an alphabet of two
C4_Witness ==
    /\ AssignReturned
    /\ Len(call.keys) = 2
    /\ Len(call.matches) = 3
    /\ Len(mapping_ret) = 3

\* squared distance of a match from the cursor, on absolute screen positions
AbsDist(m) ==
    LET y == call.panes[m.pane].start_y + m.line_num
        x == call.panes[m.pane].start_x + m.col
    IN  (y - call.cursor_y) * (y - call.cursor_y) + (x - call.cursor_x) * (x - call.cursor_x)

\* the place of a label in the generator's list for this call
GenIndex(label) ==
    LET hints == generate_hints(call.keys, Some(Len(call.matches)))
    IN  CHOOSE i \in 1..Len(hints) : hints[i] = label

\* the label of a labelled match
LabelOf(m) == mapping_ret[CHOOSE i \in 1..Len(mapping_ret) : mapping_ret[i][2] = m][1]

Labelled(m) == m \in dict_values(mapping_ret)

\* C5: labels follow the squared distance from the cursor: a strictly closer
\* match has a label that is not longer and comes earlier in the generator's
\* order, a match strictly closer than all others has a label of minimum
\* length, and matches at equal distance keep their input order.
C5_LabelsFollowDistance ==
    AssignReturned =>
        LET ms == call.matches
        IN  /\ \A i, j \in 1..Len(ms) :
                  (Labelled(ms[i]) /\ Labelled(ms[j]) /\ AbsDist(ms[i]) < AbsDist(ms[j])) =>
                      /\ Len(LabelOf(ms[i])) <= Len(LabelOf(ms[j]))
                      /\ GenIndex(LabelOf(ms[i])) < GenIndex(LabelOf(ms[j]))
            /\ \A i \in 1..Len(ms) :
                  (\A j \in 1..Len(ms) : j /= i => AbsDist(ms[i]) < AbsDist(ms[j])) =>
                      /\ Labelled(ms[i])
                      /\ \A k \in 1..Len(mapping_ret) :
                            Len(LabelOf(ms[i])) <= Len(mapping_ret[k][1])
            /\ \A i, j \in 1..Len(ms) :
                  (i < j /\ Labelled(ms[i]) /\ Labelled(ms[j])
                     /\ AbsDist(ms[i]) = AbsDist(ms[j])) =>
                      GenIndex(LabelOf(ms[i])) < GenIndex(LabelOf(ms[j]))

\* C5 witness: three matches given farthest first, in the second pane, with a
\* tie, labelled with one single and two two-character labels
C5_Witness ==
    /\ AssignReturned
    /\ Len(call.keys) = 2
    /\ Len(call.matches) = 3
    /\ call.matches[3].pane = 2
    /\ AbsDist(call.matches[1]) = AbsDist(call.matches[2])
    /\ AbsDist(call.matches[3]) < AbsDist(call.matches[1])
    /\ Len(LabelOf(call.matches[3])) = 1
    /\ Len(LabelOf(call.matches[1])) = 2

----------------------------------------------------------------------------
(* generate_smartsign_patterns, src/easymotion.py:602-663 *)

smartsign_keys ==
    {"1", "2", "3", "4", "5", "6", "7", "8", "9", "0", "-", "=", "[", "]", "BSLASH",
     ";", "SQUOTE", "BQUOTE", ",", ".", "/"}

\* the _table default argument, lines 606-628
smartsign_table(ch) ==
    CASE ch = "1" -> "!"  [] ch = "2" -> "@"  [] ch = "3" -> "#"  [] ch = "4" -> "$"
      [] ch = "5" -> "%"  [] ch = "6" -> "^"  [] ch = "7" -> "&"  [] ch = "8" -> "*"
      [] ch = "9" -> "("  [] ch = "0" -> ")"  [] ch = "-" -> "_"  [] ch = "=" -> "+"
      [] ch = "[" -> "{"  [] ch = "]" -> "}"  [] ch = "BSLASH" -> "|" [] ch = ";" -> ":"
      [] ch = "SQUOTE" -> "DQUOTE" [] ch = "BQUOTE" -> "~"  [] ch = "," -> "<"  [] ch = "." -> ">"
      [] ch = "/" -> "?"

char_options_unshifted(pattern) == [i \in 1..Len(pattern) |-> <<pattern[i]>>]

\* lines 653-659
char_options(pattern) ==
    [i \in 1..Len(pattern) |->
        IF pattern[i] \in smartsign_keys
        THEN <<pattern[i], smartsign_table(pattern[i])>>
        ELSE <<pattern[i]>>]

\* itertools.product(*char_options): the last position varies fastest
RECURSIVE product(_)
product(options) ==
    IF options = <<>> THEN << <<>> >>
    ELSE LET front == product(SubSeq(options, 1, Len(options) - 1))
             last == options[Len(options)]
         IN  [k \in 1..(Len(front) * Len(last)) |->
                 Append(front[((k - 1) \div Len(last)) + 1], last[((k - 1) % Len(last)) + 1])]

generate_smartsign_patterns(pattern, smartsign) ==
    IF ~smartsign THEN <<pattern>> ELSE product(char_options(pattern))

----------------------------------------------------------------------------
(* find_matches, src/easymotion.py:667-723 *)

RECURSIVE concat_all(_)
concat_all(lists) ==
    IF lists = <<>> THEN <<>> ELSE lists[1] \o concat_all(Tail(lists))

\* lines 700-708, pos counted from 0
splits_wide_char(line, pos, pattern_length) ==
    /\ pattern_length > 1
    /\ pos > 0
    /\ get_char_width(line[pos]) = 2
    /\ get_string_width(SubSeq(line, 1, pos)) - get_string_width(SubSeq(line, 1, pos - 1)) = 1

matches_any_exact(substring, search_patterns, case_sensitive) ==
    \E k \in 1..Len(search_patterns) : substring = search_patterns[k]

\* lines 711-716
matches_any(substring, search_patterns, case_sensitive) ==
    \E k \in 1..Len(search_patterns) :
        IF case_sensitive
        THEN substring = search_patterns[k]
        ELSE lower(substring) = lower(search_patterns[k])

\* lines 691-721 for one line: the visual columns recorded, in scan order
line_matches(line, pattern_length, search_patterns, case_sensitive) ==
    LET hit(pos) ==
            /\ pos + pattern_length <= Len(line)
            /\ ~splits_wide_char(line, pos, pattern_length)
            /\ matches_any(SubSeq(line, pos + 1, pos + pattern_length),
                           search_patterns, case_sensitive)
        starts == SelectSeq([i \in 1..Len(line) |-> i - 1], hit)
    IN  [k \in 1..Len(starts) |-> get_string_width(SubSeq(line, 1, starts[k]))]

find_matches(ps, search_pattern, case_sensitive, smartsign) ==
    LET pattern_length == Len(search_pattern)
        search_patterns == generate_smartsign_patterns(search_pattern, smartsign)
        in_line(p, n) ==
            LET cols == line_matches(ps[p].lines[n], pattern_length,
                                     search_patterns, case_sensitive)
            IN  [k \in 1..Len(cols) |-> Match(p, n - 1, cols[k])]
        in_pane(p) == concat_all([n \in 1..Len(ps[p].lines) |-> in_line(p, n)])
    IN  concat_all([p \in 1..Len(ps) |-> in_pane(p)])

----------------------------------------------------------------------------
(* generate_smartsign_patterns called on its own: the pattern and the      *)
(* smartsign option are drawn, the call is made.                           *)

\* characters of a pattern: keys of the shift table, shifted symbols, letters
SmartsignChars == {"3", ",", "#", "<", "a", "A"}

InitSmartsign ==
    /\ SessionIdle
    /\ \E pattern \in UNION {[1..k -> SmartsignChars] : k \in 0..MaxPatternLen},
          smartsign \in BOOLEAN :
          call = [fn |-> "generate_smartsign_patterns", pattern |-> pattern,
                  smartsign |-> smartsign]
    /\ ret = NoValue

CallSmartsign ==
    /\ call.fn = "generate_smartsign_patterns"
    /\ ret = NoValue
    /\ ret' = Some(generate_smartsign_patterns(call.pattern, call.smartsign))
    /\ UNCHANGED <<call, session_vars>>

NextSmartsign == CallSmartsign

SpecSmartsign == InitSmartsign /\ [][NextSmartsign]_vars

SmartsignReturned == call.fn = "generate_smartsign_patterns" /\ ret /= NoValue

\* the positions of a pattern that hold a key of the shift table
MappedPositions(pattern) == {i \in 1..Len(pattern) : pattern[i] \in smartsign_keys}

\* every str that has, at each position, the pattern's character or, where
\* that character is a key of the shift table, its shifted symbol
Variants(pattern) ==
    {v \in [1..Len(pattern) -> Elems(pattern) \cup {smartsign_table(c) : c \in smartsign_keys}] :
        \A i \in 1..Len(pattern) :
            \/ v[i] = pattern[i]
            \/ pattern[i] \in smartsign_keys /\ v[i] = smartsign_table(pattern[i])}

\* C16: with smartsign off generate_smartsign_patterns returns the pattern
\* alone; with smartsign on it returns exactly the Cartesian product, over the
\* positions, of the character and (for a key of the shift table) its
\* shifted symbol: 2^m pairwise distinct variants for m mapped positions, the
\* pattern itself among them.  A shifted symbol is not expanded back: "#"
\* yields only "#".
C16_SmartsignProduct ==
    SmartsignReturned =>
          /\ ~call.smartsign => ret[1] = <<call.pattern>>
          /\ call.smartsign =>
                /\ Elems(ret[1]) = Variants(call.pattern)
                /\ Len(ret[1]) = 2 ^ Cardinality(MappedPositions(call.pattern))
                /\ \A i, j \in 1..Len(ret[1]) : i /= j => ret[1][i] /= ret[1][j]
                /\ call.pattern \in Elems(ret[1])
          /\ MappedPositions(call.pattern) = {} => ret[1] = <<call.pattern>>
          /\ (call.smartsign /\ call.pattern = <<"#">>) => ret[1] = << <<"#">> >>
          /\ (call.smartsign /\ call.pattern = <<"3">>) => Elems(ret[1]) = { <<"3">>, <<"#">> }

\* C16 witness: the pattern "3," with smartsign on gave its four variants
C16_Witness ==
    /\ SmartsignReturned
    /\ call.smartsign
    /\ call.pattern = <<"3", ",">>
    /\ Elems(ret[1]) = { <<"3", ",">>, <<"#", ",">>, <<"3", "<">>, <<"#", "<">> }
    /\ Len(ret[1]) = 4

----------------------------------------------------------------------------
(* find_matches called on its own: the lines of two panes, the pattern and *)
(* the two search options are drawn, the call is made.                     *)

\* characters of a captured line and of a pattern: letters in both cases, a
\* double-width character, a key of the shift table and its shifted symbol
FindChars == {"a", "A", "wa", "3", "#"}

\* main searches one character (line 796) or two (line 808)
SearchLengths == {1, 2}

\* one line in the first pane; an empty line, then the same line without
\* its first character, in the second
FindPanes(line) ==
    TwoPanes(<<line>>, << <<>>, IF line = <<>> THEN <<>> ELSE Tail(line) >>, 1)

InitFind ==
    /\ SessionIdle
    /\ \E line \in UNION {[1..k -> FindChars] : k \in 0..MaxFindLine},
          pattern \in UNION {[1..k -> FindChars] : k \in SearchLengths},
          cs \in BOOLEAN, smartsign \in BOOLEAN :
          call = [fn |-> "find_matches", panes |-> FindPanes(line),
                  search_pattern |-> pattern, case_sensitive |-> cs,
                  smartsign |-> smartsign]
    /\ ret = NoValue

CallFindMatches ==
    /\ call.fn = "find_matches"
    /\ ret = NoValue
    /\ ret' = Some(find_matches(call.panes, call.search_pattern, call.case_sensitive,
                                call.smartsign))
    /\ UNCHANGED <<call, session_vars>>

NextFind == CallFindMatches

SpecFind == InitFind /\ [][NextFind]_vars

FindReturned == call.fn = "find_matches" /\ ret /= NoValue

\* the display cells of a character, from its East Asian width class
Cells(char) == IF east_asian_width(char) \in {"W", "F"} THEN 2 ELSE 1

\* the summed display width of line[:i]
RECURSIVE WidthUpTo(_, _)
WidthUpTo(line, i) == IF i = 0 THEN 0 ELSE WidthUpTo(line, i - 1) + Cells(line[i])

\* line[pos : pos + n]
Slice(line, pos, n) == SubSeq(line, pos + 1, pos + n)

\* the substring equals one of the expanded patterns, exactly or lowercased
EqualsAPattern(substring) ==
    \E pattern \in Elems(generate_smartsign_patterns(call.search_pattern, call.smartsign)) :
        IF call.case_sensitive THEN substring = pattern
        ELSE lower(substring) = lower(pattern)

\* the line of a match
LineOf(m) == call.panes[m.pane].lines[m.line_num + 1]

\* every (pane, line, pos) at which the substring of pattern length fits in
\* the line and equals one of the expanded patterns
MatchingStarts ==
    {t \in UNION {UNION {{<<p, n, pos>> : pos \in 0..(Len(call.panes[p].lines[n]) - 1)} :
                            n \in 1..Len(call.panes[p].lines)} : p \in 1..Len(call.panes)} :
        LET line == call.panes[t[1]].lines[t[2]]
        IN  /\ t[3] + Len(call.search_pattern) <= Len(line)
            /\ EqualsAPattern(Slice(line, t[3], Len(call.search_pattern)))}

\* C15: find_matches returns exactly one entry (pane, line_index, visual_col)
\* for each pane, line and string index pos at which the substring of pattern
\* length fits and equals one of the smartsign-expanded patterns (exactly
\* when case_sensitive, lowercased otherwise), visual_col being the summed
\* display width of line[:pos]; no other entry and none twice, for patterns
\* of one and of two characters.
C15_ExactlyTheMatchingStarts ==
    FindReturned =>
        /\ Elems(ret[1]) = {Match(t[1], t[2] - 1, WidthUpTo(call.panes[t[1]].lines[t[2]], t[3])) :
                               t \in MatchingStarts}
        /\ Len(ret[1]) = Cardinality(MatchingStarts)
        /\ \A i, j \in 1..Len(ret[1]) : i /= j => ret[1][i] /= ret[1][j]

\* C15 witness: a two-character search, case-insensitive with smartsign,
\* found "A#" behind a double-width character in one pane and at the start of
\* a line in the other
C15_Witness ==
    /\ FindReturned
    /\ call.search_pattern = <<"a", "3">>
    /\ ~call.case_sensitive
    /\ call.smartsign
    /\ call.panes[1].lines[1] = <<"wa", "A", "#">>
    /\ ret[1] = << Match(1, 0, 2), Match(2, 1, 0) >>

\* C17: for a two-character pattern every visual column that find_matches
\* reports is the total width of a whole-character prefix of the line: none
\* lies inside a double-width character.
C17_NoMatchInsideWideChar ==
    (FindReturned /\ Len(call.search_pattern) = 2) =>
        \A m \in Elems(ret[1]) :
            \E i \in 0..Len(LineOf(m)) : WidthUpTo(LineOf(m), i) = m.col

\* C17 witness: "aa" found directly behind a double-width character, at
\* visual column 2
C17_Witness ==
    /\ FindReturned
    /\ call.search_pattern = <<"a", "a">>
    /\ call.panes[1].lines[1] = <<"wa", "a", "a">>
    /\ Match(1, 0, 2) \in Elems(ret[1])

\* C18: for every match (pane, line, visual_col) that find_matches returns,
\* get_true_position(pane.lines[line], visual_col) is the string index at
\* which the matched text starts: the prefix before it has the width
\* visual_col and the substring of pattern length at it equals the pattern up
\* to case folding and smartsign.
C18_RoundTrip ==
    FindReturned =>
        \A m \in Elems(ret[1]) :
            LET i == get_true_position(LineOf(m), m.col)
            IN  /\ i + Len(call.search_pattern) <= Len(LineOf(m))
                /\ WidthUpTo(LineOf(m), i) = m.col
                /\ EqualsAPattern(Slice(LineOf(m), i, Len(call.search_pattern)))

\* C18 witness: on a line that mixes narrow and double-width characters a
\* match at visual column 3 starts at string index 2
C18_Witness ==
    /\ FindReturned
    /\ call.search_pattern = <<"a">>
    /\ call.panes[1].lines[1] = <<"a", "wa", "a">>
    /\ Match(1, 0, 3) \in Elems(ret[1])
    /\ get_true_position(call.panes[1].lines[1], 3) = 2

----------------------------------------------------------------------------
(* get_true_position called on its own: the line and the visual column are *)
(* drawn, the call is made.                                                *)

\* narrow, wide and fullwidth characters
WidthChars == {"a", "wa", "FA"}

InitPosition ==
    /\ SessionIdle
    /\ \E line \in UNION {[1..k -> WidthChars] : k \in 0..MaxFindLine},
          target_col \in 0..(2 * MaxFindLine + 1) :
          call = [fn |-> "get_true_position", line |-> line, target_col |-> target_col]
    /\ ret = NoValue

CallGetTruePosition ==
    /\ call.fn = "get_true_position"
    /\ ret = NoValue
    /\ ret' = Some(get_true_position(call.line, call.target_col))
    /\ UNCHANGED <<call, session_vars>>

NextPosition == CallGetTruePosition

SpecPosition == InitPosition /\ [][NextPosition]_vars

PositionReturned == call.fn = "get_true_position" /\ ret /= NoValue

\* C19: for a visual column t with 0 < t <= width of the line, the index i
\* that get_true_position returns has cumulative width of line[:i] >= t and
\* of line[:i-1] < t; for t = 0 it returns 0 and for t beyond the width of
\* the line it returns len(line).
C19_TruePositionBrackets ==
    PositionReturned =>
        LET line == call.line
            t == call.target_col
            i == ret[1]
        IN  /\ i \in 0..Len(line)
            /\ t = 0 => i = 0
            /\ (0 < t /\ t <= WidthUpTo(line, Len(line))) =>
                  /\ i >= 1
                  /\ WidthUpTo(line, i) >= t
                  /\ WidthUpTo(line, i - 1) < t
            /\ t > WidthUpTo(line, Len(line)) => i = Len(line)

\* C19 witness: the column asked for is the second cell of a double-width
\* character; the index returned is the one behind that character
C19_Witness ==
    /\ PositionReturned
    /\ call.line = <<"a", "wa", "a">>
    /\ call.target_col = 2
    /\ ret[1] = 2
    /\ WidthUpTo(call.line, 2) = 3
    /\ WidthUpTo(call.line, 1) = 1

----------------------------------------------------------------------------
(* getch, src/easymotion.py:389-411 *)

CtrlC == "^C"

\* the outcome of getch on the characters `ch` read: exit(1) on "\x03"
getch_outcome(ch) ==
    IF ch = <<CtrlC>> THEN [exits |-> TRUE, ch |-> ch] ELSE [exits |-> FALSE, ch |-> ch]

----------------------------------------------------------------------------
(* get_string_width called on its own: the string is drawn, the call is    *)
(* made.                                                                   *)

\* narrow, wide and fullwidth characters and the tab
TabChars == {"a", "wa", "FA", "TAB"}

InitWidth ==
    /\ SessionIdle
    /\ \E str \in UNION {[1..k -> TabChars] : k \in 0..MaxFindLine} :
          call = [fn |-> "get_string_width", s |-> str]
    /\ ret = NoValue

CallGetStringWidth ==
    /\ call.fn = "get_string_width"
    /\ ret = NoValue
    /\ ret' = Some(get_string_width(call.s))
    /\ UNCHANGED <<call, session_vars>>

NextWidth == CallGetStringWidth

SpecWidth == InitWidth /\ [][NextWidth]_vars

\* the width of a character that is no tab: 2 when its East Asian width is
\* Wide or Fullwidth, 1 otherwise
PlainWidth(char) == IF east_asian_width(char) \in {"W", "F"} THEN 2 ELSE 1

\* the width of a string with every tab counted as 8 columns
RECURSIVE FixedTabWidth(_)
FixedTabWidth(str) ==
    IF str = <<>> THEN 0
    ELSE (IF str[1] = "TAB" THEN 8 ELSE PlainWidth(str[1])) + FixedTabWidth(Tail(str))

\* the width of a string from visual position pos on, a tab reaching to the
\* next multiple of 8
RECURSIVE TabStopWidth(_, _)
TabStopWidth(str, pos) ==
    IF str = <<>> THEN 0
    ELSE LET w == IF str[1] = "TAB" THEN 8 - (pos % 8) ELSE PlainWidth(str[1])
         IN  w + TabStopWidth(Tail(str), pos + w)

\* C25: a tab counts 8 columns or, position-aware, the columns to the next
\* tab stop; every other character counts 2 when Wide or Fullwidth and 1
\* otherwise; the width of a string is the sum of the widths of its
\* characters.
C25_WidthsWithTab ==
    (call.fn = "get_string_width" /\ ret /= NoValue) =>
        ret[1] \in {FixedTabWidth(call.s), TabStopWidth(call.s, 0)}

----------------------------------------------------------------------------
(* tmux_move_cursor, src/easymotion.py:428-470.  A tmux command is the     *)
(* record of its name, its target pane and its -N repeat count (None when  *)
(* the option is absent).                                                  *)

TmuxCmd(cmd, target, N) == [cmd |-> cmd, target |-> target, N |-> N]

move_cursor_cmds_start_last(pane, line_num, true_col) ==
    << TmuxCmd("select-pane", pane.pane_id, NoValue) >>
    \o (IF ~pane.copy_mode THEN << TmuxCmd("copy-mode", pane.pane_id, NoValue) >> ELSE <<>>)
    \o << TmuxCmd("top-line", pane.pane_id, NoValue) >>
    \o (IF line_num > 0 THEN << TmuxCmd("cursor-down", pane.pane_id, Some(line_num)) >>
        ELSE <<>>)
    \o << TmuxCmd("start-of-line", pane.pane_id, NoValue) >>
    \o (IF true_col > 0 THEN << TmuxCmd("cursor-right", pane.pane_id, Some(true_col)) >>
        ELSE <<>>)

\* lines 430-467: the list cmds
move_cursor_cmds(pane, line_num, true_col) ==
    << TmuxCmd("select-pane", pane.pane_id, NoValue) >>
    \o (IF ~pane.copy_mode THEN << TmuxCmd("copy-mode", pane.pane_id, NoValue) >> ELSE <<>>)
    \o << TmuxCmd("top-line", pane.pane_id, NoValue),
          TmuxCmd("start-of-line", pane.pane_id, NoValue) >>
    \o (IF line_num > 0 THEN << TmuxCmd("cursor-down", pane.pane_id, Some(line_num)) >>
        ELSE <<>>)
    \o (IF true_col > 0 THEN << TmuxCmd("cursor-right", pane.pane_id, Some(true_col)) >>
        ELSE <<>>)

\* lines 469-470: the commands are run in order; sh raises on the first one
\* that fails and the rest are not run.  fail_at is the rank of the first
\* command that tmux fails, 0 when none does
tmux_move_cursor(pane, line_num, true_col, fail_at) ==
    LET cmds == move_cursor_cmds(pane, line_num, true_col)
    IN  IF fail_at \in 1..Len(cmds)
        THEN [issued |-> Take(cmds, fail_at), raised |-> TRUE]
        ELSE [issued |-> cmds, raised |-> FALSE]

\* tmux_move_cursor called on its own: the pane's copy mode, the line, the
\* string index and the command that fails are drawn, the call is made
InitMove ==
    /\ SessionIdle
    /\ \E copy_mode \in BOOLEAN, line_num \in 0..(PaneHeight - 1), true_col \in 0..MaxFindLine,
          fail_at \in 0..6 :
          call = [fn |-> "tmux_move_cursor",
                  pane |-> [PaneInfo("%2", TRUE, 0, PaneHeight, 0, PaneWidth, <<>>)
                               EXCEPT !.copy_mode = copy_mode],
                  line_num |-> line_num, true_col |-> true_col, fail_at |-> fail_at]
    /\ ret = NoValue

CallMoveCursor ==
    /\ call.fn = "tmux_move_cursor"
    /\ ret = NoValue
    /\ ret' = Some(tmux_move_cursor(call.pane, call.line_num, call.true_col, call.fail_at))
    /\ UNCHANGED <<call, session_vars>>

NextMove == CallMoveCursor

SpecMove == InitMove /\ [][NextMove]_vars

MoveReturned == call.fn = "tmux_move_cursor" /\ ret /= NoValue

\* the place of a command in the order the claim gives
Rank(cmd) ==
    CASE cmd = "select-pane" -> 1
      [] cmd = "copy-mode" -> 2
      [] cmd = "top-line" -> 3
      [] cmd = "start-of-line" -> 4
      [] cmd = "cursor-down" -> 5
      [] cmd = "cursor-right" -> 6
      [] OTHER -> 0

\* the ranks of the commands issued
IssuedRanks == {Rank(ret[1].issued[i].cmd) : i \in 1..Len(ret[1].issued)}

\* the ranks of the commands the call has to issue when none fails
DueRanks ==
    {1, 3, 4}
    \cup (IF call.pane.copy_mode THEN {} ELSE {2})
    \cup (IF call.line_num > 0 THEN {5} ELSE {})
    \cup (IF call.true_col > 0 THEN {6} ELSE {})

\* C20: tmux_move_cursor issues select-pane, copy-mode (only when the pane
\* is not in copy mode), top-line, start-of-line, cursor-down N (only when
\* N > 0), cursor-right N (only when N > 0), in this order, all to the pane
\* of the match; start-of-line comes before cursor-down and cursor-right; a
\* failing command is the last one issued and the call raises.
C20_MoveCommandOrder ==
    MoveReturned =>
        LET issued == ret[1].issued
        IN  /\ \A i \in 1..Len(issued) :
                  /\ Rank(issued[i].cmd) \in DueRanks
                  /\ issued[i].target = call.pane.pane_id
                  /\ issued[i].N = CASE issued[i].cmd = "cursor-down" -> Some(call.line_num)
                                     [] issued[i].cmd = "cursor-right" -> Some(call.true_col)
                                     [] OTHER -> NoValue
            /\ \A i, j \in 1..Len(issued) : i < j => Rank(issued[i].cmd) < Rank(issued[j].cmd)
            /\ ~ret[1].raised => IssuedRanks = DueRanks
            /\ ret[1].raised <=> call.fail_at \in 1..Cardinality(DueRanks)
            /\ ret[1].raised =>
                  /\ Len(issued) = call.fail_at
                  /\ IssuedRanks = {r \in DueRanks :
                                       Cardinality({q \in DueRanks : q <= r}) <= call.fail_at}

\* C20 witness: a pane not in copy mode, a match below the top line and
\* right of the first column, no failure: all six commands were issued
C20_Witness ==
    /\ MoveReturned
    /\ ~call.pane.copy_mode
    /\ call.line_num > 0
    /\ call.true_col > 0
    /\ ~ret[1].raised
    /\ Len(ret[1].issued) = 6
    /\ ret[1].issued[4].cmd = "start-of-line"
    /\ ret[1].issued[5] = TmuxCmd("cursor-down", "%2", Some(call.line_num))

----------------------------------------------------------------------------
(* The screen, src/easymotion.py:70-193.  A drawing function is modelled   *)
(* by the list of the addstr calls it makes, in order; the cells of the    *)
(* screen follow from the calls.                                           *)

\* Screen.A_NORMAL, A_DIM, A_HINT1, A_HINT2, lines 72-75
A_NORMAL == 0
A_DIM == 1
A_HINT1 == 2
A_HINT2 == 3

\* screen.addstr(y, x, text, attr): text is a str
addstr(y, x, text, attr) == [y |-> y, x |-> x, text |-> text, attr |-> attr]

\* lines 141-143: the text is put at row y from column x on, every character
\* on as many cells as it is wide; the cells that the call w covers
cells_of(w) ==
    UNION {{<<w.y, w.x + get_string_width(SubSeq(w.text, 1, j - 1)) + d>> :
               d \in 0..(get_char_width(w.text[j]) - 1)} : j \in 1..Len(w.text)}

\* what the cell (y, x) shows after the calls: the character and the style
\* of the last call that covers it, None when no call does
cell_after(writes, y, x) ==
    LET covering == {i \in 1..Len(writes) : <<y, x>> \in cells_of(writes[i])}
    IN  IF covering = {} THEN NoValue
        ELSE LET w == writes[CHOOSE i \in covering : \A j \in covering : j <= i]
                 k == CHOOSE j \in 1..Len(w.text) :
                         x - w.x - get_string_width(SubSeq(w.text, 1, j - 1))
                             \in 0..(get_char_width(w.text[j]) - 1)
             IN  Some([ch |-> w.text[k], attr |-> w.attr])

----------------------------------------------------------------------------
(* The positions list of main, src/easymotion.py:845-864 *)

HintPosition(screen_y, screen_x, pane_right_edge, char, next_char, hint) ==
    [screen_y |-> screen_y, screen_x |-> screen_x, pane_right_edge |-> pane_right_edge,
     char |-> char, next_char |-> next_char, hint |-> hint]

\* lines 845-864: one entry per item of hint_mapping, in its order, for the
\* matches whose line and string index exist
positions_of(ps, mapping) ==
    LET usable(i) ==
            LET mt == mapping[i][2]
            IN  /\ mt.line_num < Len(ps[mt.pane].lines)
                /\ get_true_position(ps[mt.pane].lines[mt.line_num + 1], mt.col)
                      < Len(ps[mt.pane].lines[mt.line_num + 1])
        kept == SelectSeq([i \in 1..Len(mapping) |-> i], usable)
        entry(i) ==
            LET mt == mapping[i][2]
                pane == ps[mt.pane]
                line == pane.lines[mt.line_num + 1]
                true_col == get_true_position(line, mt.col)
            IN  HintPosition(pane.start_y + mt.line_num, pane.start_x + mt.col,
                             pane.start_x + pane.width, <<line[true_col + 1]>>,
                             IF true_col + 1 < Len(line) THEN <<line[true_col + 2]>> ELSE <<>>,
                             mapping[i][1])
    IN  [k \in 1..Len(kept) |-> entry(kept[k])]

----------------------------------------------------------------------------
(* draw_all_hints, src/easymotion.py:767-782 *)

\* lines 770-780 for one position
draw_hint(position, terminal_height) ==
    LET next_x == position.screen_x + get_char_width(position.char[1])
    IN  IF position.screen_y >= terminal_height THEN <<>>
        ELSE << addstr(position.screen_y, position.screen_x, <<position.hint[1]>>, A_HINT1) >>
             \o (IF Len(position.hint) > 1 /\ next_x < position.pane_right_edge
                 THEN << addstr(position.screen_y, next_x, <<position.hint[2]>>, A_HINT2) >>
                 ELSE <<>>)

draw_all_hints(positions, terminal_height) ==
    concat_all([i \in 1..Len(positions) |-> draw_hint(positions[i], terminal_height)])

----------------------------------------------------------------------------
(* update_hints_display, src/easymotion.py:727-764 *)

\* hint.startswith(current_key)
startswith(str, prefix) == Len(prefix) <= Len(str) /\ SubSeq(str, 1, Len(prefix)) = prefix

restore_char_raw(next_char) == next_char

\* lines 735, 746, 761: next_char if next_char else " "
restore_char(next_char) == IF next_char /= <<>> THEN next_char ELSE <<" ">>

update_position_keeps_hint(position, current_key) ==
    LET next_x == position.screen_x + get_char_width(position.char[1])
        restore == IF next_x < position.pane_right_edge
                   THEN << addstr(position.screen_y, next_x,
                                  restore_char(position.next_char), A_NORMAL) >>
                   ELSE <<>>
    IN  IF startswith(position.hint, current_key)
        THEN restore
             \o (IF Len(position.hint) > Len(current_key)
                 THEN << addstr(position.screen_y, position.screen_x,
                                <<position.hint[Len(current_key) + 1]>>, A_HINT2) >>
                 ELSE << addstr(position.screen_y, position.screen_x, position.char,
                                A_NORMAL) >> \o restore)
        ELSE restore

\* lines 729-762 for one position
update_position(position, current_key) ==
    LET next_x == position.screen_x + get_char_width(position.char[1])
        restore == IF next_x < position.pane_right_edge
                   THEN << addstr(position.screen_y, next_x,
                                  restore_char(position.next_char), A_NORMAL) >>
                   ELSE <<>>
    IN  IF startswith(position.hint, current_key)
        THEN restore
             \o (IF Len(position.hint) > Len(current_key)
                 THEN << addstr(position.screen_y, position.screen_x,
                                <<position.hint[Len(current_key) + 1]>>, A_HINT2) >>
                 ELSE << addstr(position.screen_y, position.screen_x, position.char,
                                A_NORMAL) >> \o restore)
        ELSE << addstr(position.screen_y, position.screen_x, position.char, A_NORMAL) >>
             \o restore

update_hints_display(positions, current_key) ==
    concat_all([i \in 1..Len(positions) |-> update_position(positions[i], current_key)])

----------------------------------------------------------------------------
(* draw_all_panes, src/easymotion.py:560-599 *)

\* s[:n] for any integer n: a negative n counts from the end
slice_to(str, n) ==
    IF n >= 0 THEN Take(str, n)
    ELSE Take(str, IF Len(str) + n > 0 THEN Len(str) + n ELSE 0)

\* line 570: sorted(panes, key=lambda p: p.start_y + p.height), a stable sort
sorted_by_bottom(ps) ==
    LET sorted == sort_by_dist([i \in 1..Len(ps) |-> <<ps[i].start_y + ps[i].height, i>>])
    IN  [k \in 1..Len(sorted) |-> sorted[k][2]]

\* line 573
visible_height(pane, terminal_height) == Min(pane.height, terminal_height - pane.start_y)

\* lines 576-583: the content lines of a pane, padded to its width
draw_content(pane, terminal_height) ==
    LET shown_lines == slice_to(pane.lines, visible_height(pane, terminal_height))
        padded(line) ==
            IF get_string_width(line) < pane.width
            THEN line \o [i \in 1..(pane.width - get_string_width(line)) |-> " "]
            ELSE line
    IN  [y \in 1..Len(shown_lines) |->
            addstr(pane.start_y + y - 1, pane.start_x,
                   Take(padded(shown_lines[y]), pane.width), A_NORMAL)]

\* lines 586-590
draw_vertical_border(pane, max_x, terminal_height, vertical_border) ==
    IF pane.start_x + pane.width < max_x /\ visible_height(pane, terminal_height) > 0
    THEN [k \in 1..visible_height(pane, terminal_height) |->
             addstr(pane.start_y + k - 1, pane.start_x + pane.width, <<vertical_border>>,
                    A_DIM)]
    ELSE <<>>

\* lines 593-597; is_last tells whether the pane is sorted_panes[-1]
draw_horizontal_border(pane, is_last, terminal_height, horizontal_border) ==
    LET end_y == pane.start_y + visible_height(pane, terminal_height)
    IN  IF end_y < terminal_height /\ ~is_last
        THEN << addstr(end_y, pane.start_x, [i \in 1..pane.width |-> horizontal_border],
                       A_DIM) >>
        ELSE <<>>

draw_all_panes(ps, max_x, terminal_height, vertical_border, horizontal_border) ==
    LET order == sorted_by_bottom(ps)
    IN  concat_all([k \in 1..Len(order) |->
            draw_content(ps[order[k]], terminal_height)
            \o draw_vertical_border(ps[order[k]], max_x, terminal_height, vertical_border)
            \o draw_horizontal_border(ps[order[k]], k = Len(order), terminal_height,
                                      horizontal_border)])

\* draw_all_panes called on its own: a first pane at the top left, a second
\* pane whose origin, height and lines are drawn, and the terminal height
PaneLinePool == { <<>>, <<"a">> }

InitPanes ==
    /\ SessionIdle
    /\ \E start_y \in 0..MaxStartY, start_x \in {0, 3}, height \in 1..PaneHeight,
          terminal_height \in 0..MaxStartY :
       \E lines \in UNION {[1..k -> PaneLinePool] : k \in 0..height} :
          call = [fn |-> "draw_all_panes",
                  panes |-> << PaneInfo("%1", TRUE, 0, 1, 0, 2, << <<"a">> >>),
                               PaneInfo("%2", FALSE, start_y, height, start_x, 2, lines) >>,
                  max_x |-> start_x + 2,
                  terminal_height |-> terminal_height]
    /\ ret = NoValue

CallDrawAllPanes ==
    /\ call.fn = "draw_all_panes"
    /\ ret = NoValue
    /\ ret' = Some(draw_all_panes(call.panes, call.max_x, call.terminal_height, "|", "-"))
    /\ UNCHANGED <<call, session_vars>>

NextPanes == CallDrawAllPanes

SpecPanes == InitPanes /\ [][NextPanes]_vars

\* C30: draw_all_panes clips to the terminal height: whatever the origin, the
\* height and the lines of a pane (its start_y may exceed terminal_height), it
\* writes no content line and no border on a screen row >= terminal_height.
C30_ClipsToTerminalHeight ==
    (call.fn = "draw_all_panes" /\ ret /= NoValue) =>
        \A i \in 1..Len(ret[1]) : ret[1][i].y < call.terminal_height

----------------------------------------------------------------------------
(* main, src/easymotion.py:786-899, and the __main__ block, lines 902-913.  *)
(* main runs from its start to the first getch() of the input loop in one  *)
(* step, then one step per getch() of the loop.  The step that ends main   *)
(* runs the except and finally clauses of the __main__ block.              *)

move_target_top_line(ps, m) ==
    [pane |-> ps[m.pane].pane_id, line_num |-> 0,
     true_col |-> get_true_position(ps[m.pane].lines[1], m.col)]

\* the cursor move asked of tmux_move_cursor (lines 830-832, 891-893)
move_target(ps, m) ==
    [pane |-> ps[m.pane].pane_id, line_num |-> m.line_num,
     true_col |-> get_true_position(ps[m.pane].lines[m.line_num + 1], m.col)]

\* line 836: next(p for p in panes if p.active)
current_pane(ps) == ps[CHOOSE i \in 1..Len(ps) : ps[i].active /\ \A j \in 1..(i - 1) : ~ps[j].active]

Ended_after_drawing(kind, st) ==
    [st EXCEPT !.pc = "Done", !.exit_kind = kind,
               !.drawn = <<"draw_all_panes", "draw_all_hints">>]

Ended(kind, st) == [st EXCEPT !.pc = "Done", !.exit_kind = kind]

report_nothing(st) == st

\* line 826: sh(["tmux", "display-message", "no match"])
report_no_match(st) == [st EXCEPT !.shown = "no match"]

\* lines 786-878.  argv2 is sys.argv[2] (None when absent); fail names the
\* tmux command that fails: none, those of init_panes, or the first one after it
\* (display-message of line 826, select-pane of the cursor move, or the
\* display-message of get_terminal_size, line 866, before anything is drawn)
main_until_input(ps, hints, motion_type, argv2, case_sensitive, smartsign, fail) ==
    LET st0 == [pc |-> "main", exit_kind |-> None, matches |-> <<>>, hint_mapping |-> <<>>,
                moved |-> NoValue, shown |-> None, search_pattern |-> NoValue,
                drawn |-> <<>>]
        num_chars == IF motion_type = "s" THEN 1 ELSE 2
        got == getch_outcome(Take(argv2[1], num_chars))
        search_pattern == remove_char(remove_char(got.ch, "LF"), "CR")
        found == find_matches(ps, search_pattern, case_sensitive, smartsign)
        later_fails == fail = "later"
    IN  IF fail = "init_panes" THEN Ended("Exception", st0)
        ELSE IF motion_type \notin {"s", "s2"} THEN Ended("SystemExit", st0)
        ELSE IF argv2 = NoValue THEN Ended("Exception", st0)
        ELSE IF got.exits THEN Ended("SystemExit", st0)
        ELSE IF search_pattern = <<>>
             THEN Ended("return", [st0 EXCEPT !.search_pattern = Some(search_pattern)])
        ELSE LET st1 == [st0 EXCEPT !.search_pattern = Some(search_pattern),
                                    !.matches = found]
             IN  IF Len(found) = 0
                 THEN Ended(IF later_fails THEN "Exception" ELSE "return",
                            report_no_match(st1))
                 ELSE IF Len(found) = 1
                 THEN Ended(IF later_fails THEN "Exception" ELSE "return",
                            [st1 EXCEPT !.moved = Some(move_target(ps, found[1]))])
                 ELSE LET pane == current_pane(ps)
                          cursor_y == pane.start_y + pane.cursor_y
                          cursor_x == pane.start_x + pane.cursor_x
                          st2 == [st1 EXCEPT !.hint_mapping =
                                     assign_hints_by_distance(ps, found, cursor_y, cursor_x, hints)]
                      IN  IF later_fails THEN Ended("Exception", st2)
                          ELSE [st2 EXCEPT !.pc = "hint",
                                           !.drawn = <<"draw_all_panes", "draw_all_hints">>]

target_lookup_two_keys(mapping, sequence) ==
    IF Len(sequence) < 2 THEN NoValue ELSE dict_get(mapping, sequence)

target_lookup_last_key(mapping, sequence) ==
    IF sequence = <<>> THEN NoValue ELSE dict_get(mapping, <<sequence[Len(sequence)]>>)

\* line 888: hint_mapping.get(key_sequence)
target_lookup(mapping, sequence) == dict_get(mapping, sequence)

\* lines 883-899, one turn of the loop.  read is what getch() does: it
\* returns the characters read (none at end of input) or raises; fail tells
\* whether the tmux commands of the cursor move fail
input_loop_turn(ps, hints, mapping, sequence, read, fail) ==
    LET st0 == [pc |-> "hint", exit_kind |-> None, key_sequence |-> sequence,
                moved |-> NoValue, drawn |-> <<>>]
        got == getch_outcome(read[1])
        ch == got.ch
        sequence1 == sequence \o ch
        target == target_lookup(mapping, sequence1)
    IN  IF read = NoValue THEN Ended("Exception", st0)
        ELSE IF got.exits THEN Ended("SystemExit", st0)
        ELSE IF ~StrIn(ch, hints) THEN Ended("return", st0)
        ELSE LET st1 == [st0 EXCEPT !.key_sequence = sequence1]
             IN  IF target /= NoValue
                 THEN Ended(IF fail THEN "Exception" ELSE "return",
                            [st1 EXCEPT !.moved = Some(move_target(ps, target[1]))])
                 ELSE IF Len(sequence1) >= 2 THEN Ended("return", st1)
                 ELSE [st1 EXCEPT !.drawn = <<"update_hints_display">>]

cleanup_calls_after_try(kind) ==
    IF kind \in {"return", "KeyboardInterrupt", "Exception"} THEN 1 ELSE 0

\* lines 906-913: screen.cleanup() is the finally clause of the try statement
\* around main, so it runs however main ended
cleanup_calls(kind) ==
    IF kind \in {"return", "SystemExit", "KeyboardInterrupt", "Exception"} THEN 1 ELSE 0

\* the panes of a session: one captured line in the first pane, an empty
\* line and a captured line in the second; either pane is the active one
PaneChars == {"a", "wa"}
LinePool == UNION {[1..k -> PaneChars] : k \in 0..MaxLineLen}
SearchChars == {"a", "wa", "LF", CtrlC}
SearchInputs == UNION {[1..k -> SearchChars] : k \in 0..2}
\* the runs of main up to its input loop: the command line, the two search
\* options of the configuration and the tmux command that fails
MainRuns ==
    {[motion_type |-> "s", argv2 |-> NoValue, case_sensitive |-> FALSE,
      smartsign |-> FALSE, fail |-> f] : f \in {"none", "init_panes"}}
    \cup {[motion_type |-> "bd-w", argv2 |-> Some(<<"a">>), case_sensitive |-> FALSE,
           smartsign |-> FALSE, fail |-> "none"]}
    \cup {[motion_type |-> m, argv2 |-> Some(i), case_sensitive |-> o, smartsign |-> o,
           fail |-> f] :
             m \in {"s", "s2"}, i \in SearchInputs, o \in BOOLEAN, f \in {"none", "later"}}
\* what one getch() of the input loop can read: nothing (end of input) or one character
ReadResults == {<<>>} \cup {<<c>> : c \in HintChars \cup {"x", CtrlC}}

\* the state after Config.from_tmux() and screen.init(), lines 903-905
Init ==
    /\ pc = "main"
    /\ keys \in SessionAlphabets
    /\ panes \in {TwoPanes(<<l1>>, << <<>>, l2 >>, act) : l1 \in LinePool, l2 \in LinePool, act \in 1..2}
    /\ matches = <<>>
    /\ hint_mapping = <<>>
    /\ key_sequence = <<>>
    /\ read_log = <<>>
    /\ moved = NoValue
    /\ cleanups = 0
    /\ exit_kind = None
    /\ shown = None
    /\ main_search_pattern = NoValue
    /\ drawn = <<>>
    /\ call = [fn |-> "main"]
    /\ ret = NoValue

MainSearch ==
    /\ pc = "main"
    /\ \E run \in MainRuns :
          \E st \in {main_until_input(panes, keys, run.motion_type, run.argv2,
                                     run.case_sensitive, run.smartsign, run.fail)} :
              /\ pc' = st.pc
              /\ exit_kind' = st.exit_kind
              /\ matches' = st.matches
              /\ hint_mapping' = st.hint_mapping
              /\ moved' = st.moved
              /\ shown' = st.shown
              /\ main_search_pattern' = st.search_pattern
              /\ drawn' = drawn \o st.drawn
              /\ cleanups' = IF st.pc = "Done" THEN cleanups + cleanup_calls(st.exit_kind)
                             ELSE cleanups
    /\ UNCHANGED <<keys, panes, key_sequence, read_log, call, ret>>

HintKey ==
    /\ pc = "hint"
    /\ Len(read_log) < MaxReads
    /\ \E read \in {NoValue} \cup {Some(r) : r \in ReadResults}, fail \in BOOLEAN :
          \E st \in {input_loop_turn(panes, keys, hint_mapping, key_sequence, read, fail)} :
              /\ pc' = st.pc
              /\ exit_kind' = st.exit_kind
              /\ key_sequence' = st.key_sequence
              /\ moved' = st.moved
              /\ read_log' = Append(read_log, read)
              /\ drawn' = drawn \o st.drawn
              /\ cleanups' = IF st.pc = "Done" THEN cleanups + cleanup_calls(st.exit_kind)
                             ELSE cleanups
    /\ UNCHANGED <<keys, panes, matches, hint_mapping, shown, main_search_pattern, call, ret>>

\* SIGINT while main runs: KeyboardInterrupt, caught at line 908
Interrupt ==
    /\ pc \in {"main", "hint"}
    /\ pc' = "Done"
    /\ exit_kind' = "KeyboardInterrupt"
    /\ cleanups' = cleanups + cleanup_calls("KeyboardInterrupt")
    /\ UNCHANGED <<keys, panes, matches, hint_mapping, key_sequence, read_log, moved,
                   shown, main_search_pattern, drawn, call, ret>>

Next == MainSearch \/ HintKey \/ Interrupt

Spec == Init /\ [][Next]_vars

----------------------------------------------------------------------------
(* The hint phase of a session. *)

\* the input loop has called getch() at least once
InHintPhase == read_log /= <<>>

\* the first getch() of the input loop returned the one character c
FirstKeyIs(c) == InHintPhase /\ read_log[1] = Some(<<c>>)

\* the match the mapping gives to a label
MatchOfLabel(label) ==
    hint_mapping[CHOOSE i \in 1..Len(hint_mapping) : hint_mapping[i][1] = label][2]

\* the string indices of a line whose prefix has the visual width col
IndicesAtColumn(line, col) ==
    {i \in 0..Len(line) : get_string_width(SubSeq(line, 1, i)) = col}

\* the cursor move made is the one to match m: its pane, its line and the
\* string index of its visual column
MovedTo(m) ==
    /\ moved /= NoValue
    /\ moved[1].pane = panes[m.pane].pane_id
    /\ moved[1].line_num = m.line_num
    /\ IndicesAtColumn(panes[m.pane].lines[m.line_num + 1], m.col) = {moved[1].true_col}

\* C6: in the hint phase a cursor move is issued only when the accumulated key
\* sequence equals a label of the mapping, and it targets the match assigned
\* to that label: its pane, its line index and the true string index of its
\* visual column; that match is one the search found.
C6_MoveOnlyToLabelledMatch ==
    /\ pc = "hint" => moved = NoValue
    /\ (InHintPhase /\ moved /= NoValue) =>
          /\ key_sequence \in dict_keys(hint_mapping)
          /\ MatchOfLabel(key_sequence) \in Elems(matches)
          /\ MovedTo(MatchOfLabel(key_sequence))

\* C6 witness: a two-character label typed, a move into the second pane to a
\* match that follows a double-width character
C6_Witness ==
    /\ InHintPhase
    /\ moved /= NoValue
    /\ Len(key_sequence) = 2
    /\ moved[1].pane = "%2"
    /\ moved[1].true_col /= MatchOfLabel(key_sequence).col

\* C7: when the first key typed is an assigned single-character label, the
\* session moves the cursor to that label's match and ends on that key, no
\* second key being read; no two-character label begins with that key.
C7_SingleLabelCompletes ==
    \A c \in Elems(keys) :
        (FirstKeyIs(c) /\ <<c>> \in dict_keys(hint_mapping)) =>
            /\ pc = "Done"
            /\ Len(read_log) = 1
            /\ exit_kind \in {"return", "Exception"}
            /\ MovedTo(MatchOfLabel(<<c>>))
            /\ \A label \in dict_keys(hint_mapping) : Len(label) = 2 => label[1] /= c

\* C7 witness: a single-character label typed first while the mapping also
\* holds two-character labels
C7_Witness ==
    /\ \E c \in Elems(keys) : FirstKeyIs(c) /\ <<c>> \in dict_keys(hint_mapping)
    /\ \E label \in dict_keys(hint_mapping) : Len(label) = 2
    /\ pc = "Done"
    /\ exit_kind = "return"

\* C8: the hint phase always terminates: whatever getch returns (one
\* character, or the empty string at the end of the input), the input loop
\* makes at most two reads before the session is Done.
C8_AtMostTwoReads ==
    /\ Len(read_log) <= 2
    /\ Len(read_log) = 2 => pc = "Done"

\* C9: screen.cleanup() has run exactly once when the process has ended, on
\* every exit path of main, and not before.
C9_CleanupExactlyOnce ==
    /\ pc = "Done" => cleanups = 1
    /\ pc /= "Done" => cleanups = 0
    /\ pc = "Done" => exit_kind \in {"return", "SystemExit", "KeyboardInterrupt", "Exception"}

\* C9 witness: the session ended by the exit(1) of getch in the input loop
C9_Witness ==
    /\ pc = "Done"
    /\ InHintPhase
    /\ exit_kind = "SystemExit"
    /\ cleanups = 1

\* the first key typed is an alphabet character that is no label and begins none
FirstKeyUnused(c) ==
    /\ FirstKeyIs(c)
    /\ c \in Elems(keys)
    /\ \A label \in dict_keys(hint_mapping) : label[1] /= c

\* C10 as stated: an unused alphabet character typed first ends the session
\* on that key, with no further key awaited and no cursor move.
C10_Original_EndsOnUnusedKey ==
    \A c \in Elems(keys) :
        FirstKeyUnused(c) => (pc = "Done" /\ Len(read_log) = 1 /\ moved = NoValue)

\* C10 (amended): an unused alphabet character typed first never leads to a
\* cursor move, but the session does not end on that key: it stays in the
\* input loop awaiting a second key (unless interrupted) and ends on the next
\* getch() that returns a character or raises.
C10_UnusedKeyCancelsOnNextKey ==
    \A c \in Elems(keys) :
        FirstKeyUnused(c) =>
            /\ moved = NoValue
            /\ Len(read_log) = 1 => (pc = "hint" \/ exit_kind = "KeyboardInterrupt")
            /\ (\E i \in 2..Len(read_log) : read_log[i] /= Some(<<>>)) => pc = "Done"

\* C10 witness: an unused alphabet character, then a label, and the session
\* has returned
C10_Witness ==
    /\ \E c \in Elems(keys) : FirstKeyUnused(c)
    /\ Len(read_log) = 2
    /\ read_log[2] /= NoValue
    /\ read_log[2][1] \in dict_keys(hint_mapping)
    /\ pc = "Done"
    /\ exit_kind = "return"

----------------------------------------------------------------------------
(* The search phase of a session and the keys that cancel the hint phase.  *)

\* C11: in the hint phase a key that is not in the configured alphabet ends
\* the session on that very read, be it the first key or a later one, and no
\* cursor move is issued; the session returns normally unless the key is
\* Ctrl-C, on which getch exits.
C11_NonAlphabetKeyEnds ==
    \A i \in 1..Len(read_log) :
        (/\ read_log[i] /= NoValue
         /\ Len(read_log[i][1]) = 1
         /\ read_log[i][1][1] \notin Elems(keys)) =>
            /\ pc = "Done"
            /\ Len(read_log) = i
            /\ moved = NoValue
            /\ exit_kind = IF read_log[i][1][1] = CtrlC THEN "SystemExit" ELSE "return"

\* C11 witness: the first key begins a two-character label, the second key
\* is not in the alphabet, and the session has returned without a move
C11_Witness ==
    /\ Len(read_log) = 2
    /\ \E c \in Elems(keys) :
          /\ FirstKeyIs(c)
          /\ \E label \in dict_keys(hint_mapping) : Len(label) = 2 /\ label[1] = c
    /\ read_log[2] = Some(<<"x">>)
    /\ pc = "Done"
    /\ exit_kind = "return"
    /\ moved = NoValue

\* C12: when the search finds exactly one match, main moves the cursor to
\* that match (its pane, its line index, the string index of its visual
\* column) and ends without reading a hint key and without labelling; with
\* content "hello" and pattern "o" the string index is 4.
C12_SingleMatchJumps ==
    /\ (main_search_pattern /= NoValue /\ Len(matches) = 1) =>
          /\ pc = "Done"
          /\ read_log = <<>>
          /\ hint_mapping = <<>>
          /\ MovedTo(matches[1])
          /\ exit_kind \in {"return", "Exception"}
    /\ LET ps == << PaneInfo("%1", TRUE, 0, 1, 0, 5, << <<"h", "e", "l", "l", "o">> >>) >>
           found == find_matches(ps, <<"o">>, FALSE, FALSE)
       IN  /\ Len(found) = 1
           /\ move_target(ps, found[1]) = [pane |-> "%1", line_num |-> 0, true_col |-> 4]

\* C12 witness: the only match is on the second line of the second pane,
\* behind a double-width character, and main has returned after the move
C12_Witness ==
    /\ Len(matches) = 1
    /\ matches[1].pane = 2
    /\ matches[1].line_num = 1
    /\ moved /= NoValue
    /\ moved[1].true_col = 1
    /\ matches[1].col = 2
    /\ read_log = <<>>
    /\ pc = "Done"
    /\ exit_kind = "return"

\* C13: when the search of a non-empty pattern finds no match, main hands
\* "no match" to tmux display-message, issues no cursor move, draws nothing,
\* reads no hint key and returns (it never exits with an error status; only
\* a failure of the tmux command itself makes it raise); the message is
\* shown in no other case.
C13_NoMatchReported ==
    /\ (/\ main_search_pattern /= NoValue
        /\ main_search_pattern /= Some(<<>>)
        /\ matches = <<>>) =>
          /\ pc = "Done"
          /\ shown = "no match"
          /\ moved = NoValue
          /\ read_log = <<>>
          /\ exit_kind \in {"return", "Exception"}
    /\ shown /= None =>
          /\ shown = "no match"
          /\ matches = <<>>
          /\ main_search_pattern \notin {NoValue, Some(<<>>)}

\* C13 witness: a two-character search that found nothing has returned
C13_Witness ==
    /\ main_search_pattern /= NoValue
    /\ Len(main_search_pattern[1]) = 2
    /\ matches = <<>>
    /\ shown = "no match"
    /\ pc = "Done"
    /\ exit_kind = "return"

\* C14: nothing is drawn and no hint key is read unless the search found at
\* least two matches: on an empty search input (newline and carriage return
\* removed), on zero matches and on one match main ends without a call of
\* draw_all_panes, draw_all_hints or update_hints_display.
C14_NoDrawUnlessTwoMatches ==
    /\ (drawn /= <<>> \/ read_log /= <<>> \/ pc = "hint") => Len(matches) >= 2
    /\ main_search_pattern = Some(<<>>) =>
          /\ pc = "Done"
          /\ matches = <<>>
          /\ drawn = <<>>
          /\ read_log = <<>>
          /\ moved = NoValue
          /\ shown = None
    /\ drawn /= <<>> => SubSeq(drawn, 1, 2) = <<"draw_all_panes", "draw_all_hints">>

\* C14 witness: the search input was empty once stripped and main returned
\* with nothing drawn
C14_Witness ==
    /\ main_search_pattern = Some(<<>>)
    /\ pc = "Done"
    /\ exit_kind = "return"
    /\ drawn = <<>>

----------------------------------------------------------------------------
(* The rendering of a session, src/easymotion.py:835-899: the positions    *)
(* list, draw_all_panes and draw_all_hints before the input loop, then the *)
(* update_hints_display of the loop after a first key that is no label.    *)

\* line 376: get_terminal_size returns the client height less one
get_terminal_size(client_height) == client_height - 1

\* lines 542-553: max_x of init_panes
max_x_of(ps) == LET RECURSIVE upto(_)
                    upto(k) == IF k = 0 THEN 0
                               ELSE LET m == upto(k - 1)
                                        e == ps[k].start_x + ps[k].width
                                    IN  IF e > m THEN e ELSE m
                IN  upto(Len(ps))

\* the captured line of a rendered pane and the searched character
RenderChars == {"a", "wa", "b"}
RenderLines == UNION {[1..k -> RenderChars] : k \in 1..MaxFindLine}
RenderPatterns == { <<"a">>, <<"wa">> }

\* one pane at the top left, PaneHeight rows high: the line is on its first
\* or on its last row, the pane is as wide as the line or one column wider,
\* the cursor is on the first or on the last column of the line
RenderPane(line, row, extra, at_end) ==
    [PaneInfo("%1", TRUE, 0, PaneHeight, 0, get_string_width(line) + extra,
              [i \in 1..(row + 1) |-> IF i = row + 1 THEN line ELSE <<>>])
        EXCEPT !.cursor_x = IF at_end THEN get_string_width(line) - 1 ELSE 0]

\* lines 835-864: the state of main when it starts drawing.  The client is
\* as high as the pane (no status line) or one row higher
InitRender ==
    /\ SessionIdle
    /\ \E line \in RenderLines, row \in {0, PaneHeight - 1}, extra \in 0..1,
          at_end \in BOOLEAN, pattern \in RenderPatterns, ks \in SessionAlphabets,
          status \in 0..1 :
       \E ps \in { << RenderPane(line, row, extra, at_end) >> } :
       \E found \in { find_matches(ps, pattern, FALSE, FALSE) } :
       \E mapping \in { assign_hints_by_distance(ps, found,
                            ps[1].start_y + ps[1].cursor_y,
                            ps[1].start_x + ps[1].cursor_x, ks) } :
          /\ Len(found) >= 2
          /\ call = [fn |-> "render", panes |-> ps, keys |-> ks,
                     hint_mapping |-> mapping,
                     positions |-> positions_of(ps, mapping),
                     terminal_height |-> get_terminal_size(PaneHeight + status)]
    /\ ret = NoValue

\* lines 866-876: draw_all_panes, then draw_all_hints
RenderDraw ==
    /\ call.fn = "render"
    /\ ret = NoValue
    /\ ret' = Some([stage |-> "drawn", current_key |-> <<>>,
                    panes_writes |-> draw_all_panes(call.panes, max_x_of(call.panes),
                                                    call.terminal_height, "|", "-"),
                    hints_writes |-> draw_all_hints(call.positions, call.terminal_height),
                    update_writes |-> <<>>])
    /\ UNCHANGED <<call, session_vars>>

\* lines 883-899: the first key is a character of config.hints that is no
\* label of hint_mapping, update_hints_display is called with it
RenderUpdate ==
    /\ call.fn = "render"
    /\ ret /= NoValue
    /\ ret[1].stage = "drawn"
    /\ \E ch \in Elems(call.keys) :
          /\ target_lookup(call.hint_mapping, <<ch>>) = NoValue
          /\ ret' = Some([ret[1] EXCEPT
                            !.stage = "updated", !.current_key = <<ch>>,
                            !.update_writes = update_hints_display(call.positions, <<ch>>)])
    /\ UNCHANGED <<call, session_vars>>

NextRender == RenderDraw \/ RenderUpdate

SpecRender == InitRender /\ [][NextRender]_vars

\* the addstr calls made on the screen so far, in order
ScreenWrites == ret[1].panes_writes \o ret[1].hints_writes \o ret[1].update_writes

HintsDrawn == call.fn = "render" /\ ret /= NoValue /\ ret[1].stage = "drawn"
HintsUpdated == call.fn = "render" /\ ret /= NoValue /\ ret[1].stage = "updated"

\* the secondary cell of a position: the column after its character
SecondaryX(p) == p.screen_x + Cells(p.char[1])

\* the label starts with the keys typed so far
HasPrefix(label, typed) ==
    Len(typed) <= Len(label) /\ \A i \in 1..Len(typed) : label[i] = typed[i]

\* the character of a captured line that starts on the visual column col
OriginalCharAt(line, col) ==
    line[CHOOSE i \in 1..Len(line) : WidthUpTo(line, i - 1) = col]

\* C21: update_hints_display never writes an empty string, and it restores
\* the secondary cell of a position (when that cell is left of the pane's
\* right edge) with a single space when the original next character is
\* absent and with the original next character otherwise, in normal style.
C21_RestoreNeverEmpty ==
    HintsUpdated =>
        /\ \A i \in 1..Len(ret[1].update_writes) : ret[1].update_writes[i].text /= <<>>
        /\ \A k \in 1..Len(call.positions) :
              LET p == call.positions[k]
              IN  SecondaryX(p) < p.pane_right_edge =>
                     \E i \in 1..Len(ret[1].update_writes) :
                        ret[1].update_writes[i] =
                           [y |-> p.screen_y, x |-> SecondaryX(p),
                            text |-> IF p.next_char = <<>> THEN <<" ">> ELSE p.next_char,
                            attr |-> A_NORMAL]

\* C21 witness: a position at the end of its line, in a pane one column
\* wider than the line, had its secondary cell restored with a space, and
\* another position had it restored with the next character of the line
C21_Witness ==
    /\ HintsUpdated
    /\ \E k, j \in 1..Len(call.positions) :
          /\ call.positions[k].next_char = <<>>
          /\ SecondaryX(call.positions[k]) < call.positions[k].pane_right_edge
          /\ call.positions[j].next_char /= <<>>
          /\ \E i \in 1..Len(ret[1].update_writes) :
                /\ ret[1].update_writes[i].text = <<" ">>
                /\ ret[1].update_writes[i].x = SecondaryX(call.positions[k])
                /\ ret[1].update_writes[i].y = call.positions[k].screen_y

\* C26: after update_hints_display, every position whose label starts with
\* the typed prefix and is longer than it shows the next character of the
\* label in the hint-secondary style at its primary cell, whatever the list
\* of positions (adjacent columns included) and its order.
C26_RemainingHintShown ==
    HintsUpdated =>
        \A k \in 1..Len(call.positions) :
           LET p == call.positions[k]
           IN  (HasPrefix(p.hint, ret[1].current_key)
                   /\ Len(p.hint) > Len(ret[1].current_key)) =>
                  cell_after(ScreenWrites, p.screen_y, p.screen_x)
                     = Some([ch |-> p.hint[Len(ret[1].current_key) + 1], attr |-> A_HINT2])

\* C27: after draw_all_hints, every position on a row above terminal_height
\* shows the first character of its label in the hint-primary style at its
\* cell, and a position with a two-character label whose next column is left
\* of the pane's right edge shows the second character in the hint-secondary
\* style there, whatever the list of positions (adjacent columns included).
C27_AllHintsShown ==
    HintsDrawn =>
        \A k \in 1..Len(call.positions) :
           LET p == call.positions[k]
           IN  p.screen_y < call.terminal_height =>
                  /\ cell_after(ScreenWrites, p.screen_y, p.screen_x)
                        = Some([ch |-> p.hint[1], attr |-> A_HINT1])
                  /\ (Len(p.hint) = 2 /\ SecondaryX(p) < p.pane_right_edge) =>
                        cell_after(ScreenWrites, p.screen_y, SecondaryX(p))
                           = Some([ch |-> p.hint[2], attr |-> A_HINT2])

\* C28: after update_hints_display, every position whose label does not
\* start with the typed prefix shows the original character of the line in
\* normal style at its primary cell.
C28_NonMatchingRestored ==
    HintsUpdated =>
        \A k \in 1..Len(call.hint_mapping) :
           LET label == call.hint_mapping[k][1]
               mt == call.hint_mapping[k][2]
               pane == call.panes[mt.pane]
           IN  ~HasPrefix(label, ret[1].current_key) =>
                  cell_after(ScreenWrites, pane.start_y + mt.line_num, pane.start_x + mt.col)
                     = Some([ch |-> OriginalCharAt(pane.lines[mt.line_num + 1], mt.col),
                             attr |-> A_NORMAL])

\* C28 witness: a position whose label does not start with the typed key was
\* restored, and its cell is the secondary cell of another position
C28_Witness ==
    /\ HintsUpdated
    /\ \E k, j \in 1..Len(call.positions) :
          /\ ~HasPrefix(call.positions[k].hint, ret[1].current_key)
          /\ call.positions[j].screen_y = call.positions[k].screen_y
          /\ SecondaryX(call.positions[j]) = call.positions[k].screen_x
          /\ cell_after(ScreenWrites, call.positions[k].screen_y, call.positions[k].screen_x)
                = Some([ch |-> call.positions[k].char[1], attr |-> A_NORMAL])

\* C29: in a session update_hints_display writes only to the primary and
\* secondary cells of positions on a row above terminal_height: a position
\* that draw_all_hints skipped is not written to.
C29_UpdateOnlyDrawnRows ==
    HintsUpdated =>
        \A i \in 1..Len(ret[1].update_writes) :
           \E k \in 1..Len(call.positions) :
              LET p == call.positions[k]
              IN  /\ p.screen_y < call.terminal_height
                  /\ ret[1].update_writes[i].y = p.screen_y
                  /\ ret[1].update_writes[i].x \in {p.screen_x, SecondaryX(p)}

=============================================================================
